---------------------------- MODULE Spec2Model ----------------------------
(***************************************************************************)
(* MECHAStreamlit: the parameter sweep of app.py ("Run MECHA simulation")  *)
(* and the root cross-section reconstruction of src/utils_vizu.py          *)
(* (get_root_section).                                                     *)
(*                                                                         *)
(* Two specifications share the variables:                                 *)
(*   SpecSweep    one run of the sweep handler, step by step;              *)
(*   SpecSection  one call of get_root_section on a mesh document.         *)
(* The variables of the part a specification does not exercise stay at     *)
(* their idle values.                                                      *)
(***************************************************************************)
EXTENDS Integers, Sequences, FiniteSets, TLC

VARIABLES
    \* ---- app.py, sweep handler ----
    use_preloaded,   \* st.checkbox "Use a pre-loaded root geometry"
    param,           \* st.selectbox "Choose parameter to vary"
    mode,            \* st.radio "Mode"
    values,          \* the generated parameter values
    scenarios,       \* st.multiselect, in the order the user picked them
    pc,              \* position of the handler
    i,               \* 1-based index of the value being processed
    geomFile,        \* contents of GEOM_PATH
    hydFile,         \* contents of HYDRAULICS_PATH
    kr,              \* vector last returned by mecha()
    results,         \* the list `results`
    calls,           \* the calls made to the collaborators so far, in order
    \* ---- src/utils_vizu.py, get_root_section ----
    doc,             \* the mesh document handed to get_root_section
    phase,           \* position inside get_root_section
    group_map,       \* dict group id -> label
    wall_linestrings,\* dict wall id -> polyline
    cell_idx,        \* 1-based index of the next <cell> element
    records,         \* the list `records`
    cellLog,         \* per processed cell: what the loop body computed
    exc              \* the exception that left get_root_section, if any

sweepVars == <<use_preloaded, param, mode, values, scenarios, pc, i,
               geomFile, hydFile, kr, results, calls>>
sectionVars == <<doc, phase, group_map, wall_linestrings, cell_idx, records,
                 cellLog, exc>>
vars == <<sweepVars, sectionVars>>

(***************************************************************************)
(* Generic helpers.                                                        *)
(***************************************************************************)
Range(s) == {s[k] : k \in DOMAIN s}

IsPrefix(s, t) == Len(s) <= Len(t) /\ \A k \in 1..Len(s) : s[k] = t[k]

\* All sequences over S without repetition, of length at most n.
RECURSIVE DistinctSeqs(_, _)
DistinctSeqs(S, n) ==
    IF n = 0 THEN {<<>>}
    ELSE LET shorter == DistinctSeqs(S, n - 1)
         IN  shorter \cup
             UNION { {Append(s, e) : e \in S \ Range(s)} :
                       s \in {t \in shorter : Len(t) = n - 1} }

(***************************************************************************)
(*                         PART 1: the sweep (app.py)                      *)
(***************************************************************************)

\* Largest value the user enters, in slider ticks.
MaxInput == 2

\* np.linspace(..., 10): the number of steps of range mode.
RangeSteps == 10

\* Length of the vector mecha() returns: one entry per scenario identifier
\* 0..4 ("indexed by scenario identifier").
KrLen == 5

\* The options of the scenario multiselect.
ScenarioChoices == {0, 1, 3, 4}

\* PARAM_INFO keys, and the input field each one is written to by the
\* if/elif chain of the loop: <<file, element, format>>.
ParamField ==
    [thickness |-> [file |-> "geom", tag |-> "thickness", fmt |-> ".3f"],
     km        |-> [file |-> "hyd",  tag |-> "km",        fmt |-> ".6f"],
     kAQP      |-> [file |-> "hyd",  tag |-> "kAQP",      fmt |-> ".6f"],
     kw        |-> [file |-> "hyd",  tag |-> "kw",        fmt |-> ".6f"],
     Kpl       |-> [file |-> "hyd",  tag |-> "Kpl",       fmt |-> ".3e"]]
Params == DOMAIN ParamField

\* Parameter values are held exactly, as integer multiples of conv/(RangeSteps-1)
\* of the chosen parameter: the user's tick t stands for the value
\* (RangeSteps-1)*t in that unit.
Unit == RangeSteps - 1

\* The user's inputs of the value widget: a number (single mode) or a slider
\* pair selected_min <= selected_max (range mode).
UserInputs ==
    {[mode |-> "single", lo |-> t, hi |-> t] : t \in 1..MaxInput}
    \cup {in \in [mode : {"range"}, lo : 1..MaxInput, hi : 1..MaxInput] :
             in.lo <= in.hi}

\* np.linspace(lo, hi, n): n evenly spaced values, endpoints included.
Linspace(lo, hi, n) == [k \in 1..n |-> (n - 1) * lo + (k - 1) * (hi - lo)]

\* The list `values` (the two branches of `if mode == "Single value"`).
GenValues(in) ==
    IF in.mode = "single" THEN << Unit * in.lo >>
    ELSE Linspace(in.lo, in.hi, RangeSteps)

\* f"{v:.3f}" and friends: the text written into the input field.
Format(v, fmt) == [fmt |-> fmt, v |-> v]

\* The input files as copied from their pristine versions by safe_copy.
PristineGeom(pre) ==
    [thickness |-> [fmt |-> IF pre THEN "preloaded" ELSE "default", v |-> 0],
     active    |-> [set |-> FALSE, ids |-> <<>>]]
PristineHyd ==
    [t \in {"km", "kAQP", "kw", "Kpl"} |-> [fmt |-> "default", v |-> 0]]
\* What a previous run left behind.
StaleGeom == [thickness |-> [fmt |-> "stale", v |-> 0],
              active    |-> [set |-> TRUE, ids |-> <<0>>]]
StaleHyd == [t \in {"km", "kAQP", "kw", "Kpl"} |-> [fmt |-> "stale", v |-> 0]]

\* set_hydraulic_scenario(GEOM_PATH, scenarios): rewrites the flags.
set_hydraulic_scenario(g, sc) == [g EXCEPT !.active = [set |-> TRUE, ids |-> sc]]

\* update_xml_attributes(path, parent, tag, {"value": text}).
update_xml_attributes(f, tag, text) == [f EXCEPT ![tag] = text]

\* mecha(): reads both input files, returns one conductivity per scenario
\* identifier.  The simulator is opaque: the conductivity of scenario j is
\* the symbolic value "what the simulator computes for j on these files".
mecha(g, h) == [j \in 0..(KrLen - 1) |-> [geom |-> g, hyd |-> h, scen |-> j]]

Call(op, k) == [op |-> op, k |-> k]

\* The rows appended for one value (the inner `for i_sc, n_sc in
\* enumerate(scenarios)` loop): kr is read at the enumerate index.
\* (ResultRowsFirstOnly: the faulty variant that records the first selected
\* scenario only.)
ResultRowsFirstOnly(v, vec, sc) ==
    [j \in 1..(IF Len(sc) = 0 THEN 0 ELSE 1) |->
        [parameter_value |-> v, kr |-> vec[j - 1], hydraulic_scenario |-> sc[j]]]
ResultRows(v, vec, sc) ==
    [j \in 1..Len(sc) |->
        [parameter_value |-> v, kr |-> vec[j - 1], hydraulic_scenario |-> sc[j]]]

SweepIdle ==
    /\ use_preloaded = TRUE /\ param = "thickness" /\ mode = "single"
    /\ values = <<>> /\ scenarios = <<>> /\ pc = "off" /\ i = 0
    /\ geomFile = StaleGeom /\ hydFile = StaleHyd
    /\ kr = <<>> /\ results = <<>> /\ calls = <<>>

SectionIdle ==
    /\ doc = [parseable |-> FALSE, groups |-> <<>>, walls |-> <<>>, cells |-> <<>>]
    /\ phase = "off" /\ group_map = <<>> /\ wall_linestrings = <<>>
    /\ cell_idx = 0 /\ records = <<>> /\ cellLog = <<>> /\ exc = "none"

\* The widgets' state when the script reaches the Run button.
InitSweep ==
    /\ use_preloaded \in BOOLEAN
    /\ param \in Params
    /\ \E in \in UserInputs : mode = in.mode /\ values = GenValues(in)
    /\ scenarios \in DistinctSeqs(ScenarioChoices, Cardinality(ScenarioChoices))
    /\ pc = "button" /\ i = 0
    /\ geomFile = StaleGeom /\ hydFile = StaleHyd
    /\ kr = <<>> /\ results = <<>> /\ calls = <<>>
    /\ SectionIdle

\* st.button("Run MECHA simulation") pressed; "Clean start": the safe_copy
\* calls of lines 166-170.
CleanStart ==
    /\ pc = "button"
    /\ geomFile' = PristineGeom(use_preloaded)
    /\ hydFile' = PristineHyd
    /\ calls' = calls \o << Call("safe_copy_geometry", 0), Call("safe_copy_hydraulics", 0) >>
    /\ pc' = "activate"
    /\ UNCHANGED <<use_preloaded, param, mode, values, scenarios, i, kr, results>>
    /\ UNCHANGED sectionVars

\* set_hydraulic_scenario(GEOM_PATH, scenarios); results = []; the loop starts.
ActivateScenarios ==
    /\ pc = "activate"
    /\ geomFile' = set_hydraulic_scenario(geomFile, scenarios)
    /\ calls' = Append(calls, Call("set_hydraulic_scenario", 0))
    /\ results' = <<>>
    /\ i' = 1
    /\ pc' = IF Len(values) >= 1 THEN "update" ELSE "display"
    /\ UNCHANGED <<use_preloaded, param, mode, values, scenarios, hydFile, kr>>
    /\ UNCHANGED sectionVars

\* The if/elif chain: the value is written to the parameter's field.
\* (UpdateValueAndActivate: the faulty variant that activates the scenarios
\* again in every pass.)
UpdateValueAndActivate ==
    /\ pc = "update"
    /\ LET f == ParamField[param]
           text == Format(values[i], f.fmt)
       IN  /\ geomFile' = set_hydraulic_scenario(
                            IF f.file = "geom"
                            THEN update_xml_attributes(geomFile, f.tag, text)
                            ELSE geomFile, scenarios)
           /\ hydFile' = IF f.file = "hyd"
                         THEN update_xml_attributes(hydFile, f.tag, text)
                         ELSE hydFile
    /\ calls' = calls \o << Call("set_hydraulic_scenario", i),
                            Call("update_xml_attributes", i) >>
    /\ pc' = "invoke"
    /\ UNCHANGED <<use_preloaded, param, mode, values, scenarios, i, kr, results>>
    /\ UNCHANGED sectionVars
UpdateValue ==
    /\ pc = "update"
    /\ LET f == ParamField[param]
           text == Format(values[i], f.fmt)
       IN  /\ geomFile' = IF f.file = "geom"
                          THEN update_xml_attributes(geomFile, f.tag, text)
                          ELSE geomFile
           /\ hydFile' = IF f.file = "hyd"
                         THEN update_xml_attributes(hydFile, f.tag, text)
                         ELSE hydFile
    /\ calls' = Append(calls, Call("update_xml_attributes", i))
    /\ pc' = "invoke"
    /\ UNCHANGED <<use_preloaded, param, mode, values, scenarios, i, kr, results>>
    /\ UNCHANGED sectionVars

\* kr = mecha(): the call is entered ...
MechaCall ==
    /\ pc = "invoke"
    /\ calls' = Append(calls, Call("mecha", i))
    /\ pc' = "running"
    /\ UNCHANGED <<use_preloaded, param, mode, values, scenarios, i,
                   geomFile, hydFile, kr, results>>
    /\ UNCHANGED sectionVars

\* ... and returns its vector (the handler was blocked meanwhile),
MechaReturn ==
    /\ pc = "running"
    /\ kr' = mecha(geomFile, hydFile)
    /\ calls' = Append(calls, Call("mecha_returned", i))
    /\ pc' = "collect"
    /\ UNCHANGED <<use_preloaded, param, mode, values, scenarios, i,
                   geomFile, hydFile, results>>
    /\ UNCHANGED sectionVars

\* ... or raises: nothing catches it, the handler ends without results.
MechaRaise ==
    /\ pc = "running"
    /\ calls' = Append(calls, Call("mecha_raised", i))
    /\ pc' = "aborted"
    /\ UNCHANGED <<use_preloaded, param, mode, values, scenarios, i,
                   geomFile, hydFile, kr, results>>
    /\ UNCHANGED sectionVars

\* The inner loop over the selected scenarios, then the next value.
Collect ==
    /\ pc = "collect"
    /\ results' = results \o ResultRows(values[i], kr, scenarios)
    /\ i' = i + 1
    /\ pc' = IF i < Len(values) THEN "update" ELSE "display"
    /\ UNCHANGED <<use_preloaded, param, mode, values, scenarios,
                   geomFile, hydFile, kr, calls>>
    /\ UNCHANGED sectionVars

\* df = pd.DataFrame(results); "Simulation complete".
Display ==
    /\ pc = "display"
    /\ pc' = "done"
    /\ UNCHANGED <<use_preloaded, param, mode, values, scenarios, i,
                   geomFile, hydFile, kr, results, calls>>
    /\ UNCHANGED sectionVars

NextSweep ==
    \/ CleanStart \/ ActivateScenarios \/ UpdateValue \/ MechaCall
    \/ MechaReturn \/ MechaRaise \/ Collect \/ Display

SpecSweep == InitSweep /\ [][NextSweep]_vars


(***************************************************************************)
(* Claims about the sweep.                                                 *)
(***************************************************************************)

\* #values: 1 in single-value mode, 10 in range mode.
NumValues == IF mode = "single" THEN 1 ELSE 10

\* The calls a complete sweep over n values makes, in order.
ExpectedCalls(n) ==
    [t \in 1..(3 + 3 * n) |->
        IF t = 1 THEN Call("safe_copy_geometry", 0)
        ELSE IF t = 2 THEN Call("safe_copy_hydraulics", 0)
        ELSE IF t = 3 THEN Call("set_hydraulic_scenario", 0)
        ELSE LET k == ((t - 4) \div 3) + 1
                 r == (t - 4) % 3
             IN  IF r = 0 THEN Call("update_xml_attributes", k)
                 ELSE IF r = 1 THEN Call("mecha", k)
                 ELSE Call("mecha_returned", k)]

\* The field of the input files the chosen parameter is written to.
CurrentField ==
    IF ParamField[param].file = "geom" THEN geomFile[ParamField[param].tag]
    ELSE hydFile[ParamField[param].tag]

\* C1: in one sweep run, the record emitted for (v, s) carries the entry at
\* index s (the scenario identifier) of the vector the simulator returned
\* for v.  Stated on the rows of the value collected last, for which `kr`
\* still holds the returned vector.
C1_RecordCarriesEntryOfScenarioId ==
    (pc \in {"update", "display", "done"} /\ i >= 2) =>
        \A j \in 1..Len(scenarios) :
            results[(i - 2) * Len(scenarios) + j].kr = kr[scenarios[j]]

\* C2: a sweep that runs to completion emits exactly #values x #scenarios
\* records (#values = 1 in single mode, 10 in range mode), in value order
\* and, within one value, in the order of the user's scenario selection.
C2_RecordCountAndOrder ==
    pc = "done" =>
        /\ Len(values) = NumValues
        /\ Len(results) = NumValues * Len(scenarios)
        /\ \A k \in 1..NumValues : \A j \in 1..Len(scenarios) :
             LET r == results[(k - 1) * Len(scenarios) + j]
             IN  /\ r.parameter_value = values[k]
                 /\ r.hydraulic_scenario = scenarios[j]

C2_Witness ==
    /\ pc = "done" /\ mode = "range" /\ scenarios = <<3, 1>>
    /\ Len(results) = 20
    /\ results[20].hydraulic_scenario = 1 /\ results[19].hydraulic_scenario = 3

\* C3: the input files are reset and the scenario activation written exactly
\* once, before the first value; then per value: the value is written, only
\* then the simulator is invoked once, and it has returned before the next
\* value is written; a complete sweep invokes the simulator #values times
\* and never repeats the activation.
C3_StepOrder ==
    /\ pc # "aborted" => IsPrefix(calls, ExpectedCalls(NumValues))
    /\ pc = "aborted" =>
         /\ IsPrefix(SubSeq(calls, 1, Len(calls) - 1), ExpectedCalls(NumValues))
         /\ calls[Len(calls)] = Call("mecha_raised", i)
         /\ calls[Len(calls) - 1] = Call("mecha", i)
    /\ pc = "done" => calls = ExpectedCalls(NumValues)
    /\ pc = "running" =>
         /\ CurrentField = Format(values[i], ParamField[param].fmt)
         /\ geomFile.active = [set |-> TRUE, ids |-> scenarios]

C3_Witness ==
    /\ pc = "done" /\ mode = "range" /\ Len(calls) = 33
    /\ Cardinality({t \in 1..Len(calls) : calls[t].op = "mecha"}) = 10
    /\ Cardinality({t \in 1..Len(calls) : calls[t].op = "set_hydraulic_scenario"}) = 1


(***************************************************************************)
(*            PART 2: get_root_section (src/utils_vizu.py)                 *)
(***************************************************************************)

(***************************************************************************)
(* XML attribute values.  elem.get(a) is None when the attribute is        *)
(* missing, else its text: a number, the empty text, or other text.        *)
(***************************************************************************)
NumTok(n) == [k |-> "num", v |-> n]
NoAttr    == [k |-> "none", v |-> 0]
EmptyTok  == [k |-> "empty", v |-> 0]
BadTok    == [k |-> "bad", v |-> 0]

\* Labels: a Python str, or None.
Str(t)  == [k |-> "str", s |-> t]
PyNone  == [k |-> "none", s |-> ""]

NoExc == [type |-> "none", at |-> "none"]

\* int(text) / float(text): the value, TypeError on None, ValueError on text
\* that is no number.
\* (PyIntLenient: the faulty variant that never raises.)
PyIntLenient(tok) == [ok |-> TRUE, v |-> tok.v, err |-> "none"]
PyInt(tok) ==
    IF tok.k = "num" THEN [ok |-> TRUE, v |-> tok.v, err |-> "none"]
    ELSE IF tok.k = "none" THEN [ok |-> FALSE, v |-> 0, err |-> "TypeError"]
    ELSE [ok |-> FALSE, v |-> 0, err |-> "ValueError"]
PyFloat(tok) ==
    IF tok.k = "num" THEN [ok |-> TRUE, v |-> tok.v, err |-> "none"]
    ELSE IF tok.k = "none" THEN [ok |-> FALSE, v |-> 0, err |-> "TypeError"]
    ELSE [ok |-> FALSE, v |-> 0, err |-> "ValueError"]

\* Truth value of elem.get(a): None and "" are falsy.
Truthy(tok) == tok.k \in {"num", "bad"}

Pt(x, y) == [x |-> x, y |-> y]

(***************************************************************************)
(* Groups (lines 39-50).                                                   *)
(***************************************************************************)
\* The if/elif/else choosing group_name.
\* (GroupNameAsDeclared: the faulty variant without the two overrides.)
GroupNameAsDeclared(group_id, declared) == declared
GroupName(group_id, declared) ==
    IF group_id = 4 THEN Str("cortex")
    ELSE IF group_id = 3 THEN Str("endodermis")
    ELSE declared

\* The loop over the <group> elements, from element k on, into map m.
RECURSIVE ParseGroupsFrom(_, _, _)
ParseGroupsFrom(decls, k, m) ==
    IF k > Len(decls) THEN [ok |-> TRUE, map |-> m, exc |-> NoExc]
    ELSE LET id == PyInt(decls[k].id)
         IN  IF ~id.ok
             THEN [ok |-> FALSE, map |-> m, exc |-> [type |-> id.err, at |-> "group_id"]]
             ELSE ParseGroupsFrom(decls, k + 1,
                                  (id.v :> GroupName(id.v, decls[k].name)) @@ m)

(***************************************************************************)
(* Walls (lines 53-69).                                                    *)
(***************************************************************************)
\* The list comprehension over the <point> elements, from point k on.
RECURSIVE WallPointsFrom(_, _, _)
WallPointsFrom(pts, k, acc) ==
    IF k > Len(pts) THEN [ok |-> TRUE, pts |-> acc, err |-> "none"]
    ELSE IF ~(Truthy(pts[k].x) /\ Truthy(pts[k].y))
         THEN WallPointsFrom(pts, k + 1, acc)
         ELSE LET fx == PyFloat(pts[k].x)
                  fy == PyFloat(pts[k].y)
              IN  IF ~fx.ok THEN [ok |-> FALSE, pts |-> acc, err |-> fx.err]
                  ELSE IF ~fy.ok THEN [ok |-> FALSE, pts |-> acc, err |-> fy.err]
                  ELSE WallPointsFrom(pts, k + 1, Append(acc, Pt(fx.v, fy.v)))

\* `if len(points) >= 2`: the wall enters the index.
KeepsWall(points) == Len(points) >= 2

\* The loop over the <wall> elements, from element k on, into map m.
RECURSIVE ParseWallsFrom(_, _, _)
ParseWallsFrom(ws, k, m) ==
    IF k > Len(ws) THEN [ok |-> TRUE, map |-> m, exc |-> NoExc]
    ELSE LET id == PyInt(ws[k].id)
         IN  IF ~id.ok
             THEN [ok |-> FALSE, map |-> m, exc |-> [type |-> id.err, at |-> "wall_id"]]
             ELSE IF ~ws[k].points.has
             THEN ParseWallsFrom(ws, k + 1, m)
             ELSE LET p == WallPointsFrom(ws[k].points.pts, 1, <<>>)
                  IN  IF ~p.ok
                      THEN [ok |-> FALSE, map |-> m,
                            exc |-> [type |-> p.err, at |-> "wall_point"]]
                      ELSE ParseWallsFrom(ws, k + 1,
                             IF KeepsWall(p.pts) THEN (id.v :> p.pts) @@ m ELSE m)

(***************************************************************************)
(* Geometry.                                                               *)
(***************************************************************************)
\* Twice the signed area of the polygon through the vertices vs (shoelace).
RECURSIVE Shoelace(_, _)
Shoelace(vs, k) ==
    IF k > Len(vs) THEN 0
    ELSE LET a == vs[k]
             b == vs[(k % Len(vs)) + 1]
         IN  (a.x * b.y - b.x * a.y) + Shoelace(vs, k + 1)
Area2(vs) == IF Len(vs) = 0 THEN 0 ELSE Shoelace(vs, 1)

RECURSIVE SumOf(_, _, _)
SumOf(ps, k, xcoord) ==
    IF k > Len(ps) THEN 0
    ELSE (IF xcoord THEN ps[k].x ELSE ps[k].y) + SumOf(ps, k + 1, xcoord)

RECURSIVE Reverse(_)
Reverse(sq) == IF sq = <<>> THEN <<>> ELSE Append(Reverse(Tail(sq)), Head(sq))

RECURSIVE Flatten(_)
Flatten(ls) == IF ls = <<>> THEN <<>> ELSE Head(ls) \o Flatten(Tail(ls))

First(l) == l[1]
Last(l)  == l[Len(l)]

(***************************************************************************)
(* shapely.ops.polygonize(cell_lines).  Each line is an edge between its   *)
(* two end points; the polygons are the bounded faces of that graph whose  *)
(* ring is valid.  The face test used here (a simple cycle of lines, of    *)
(* non-zero area, with no other line running between its vertices) is      *)
(* exact for lines that only meet at end points and whose points lie on    *)
(* the boundary of their convex hull, which is how MeshDocs draws walls.   *)
(***************************************************************************)
Degree(lines, S, p) ==
    Cardinality({t \in S : First(lines[t]) = p})
      + Cardinality({t \in S : Last(lines[t]) = p})

TwoRegular(lines, S) ==
    /\ S # {}
    /\ \A t \in S : /\ Degree(lines, S, First(lines[t])) = 2
                    /\ Degree(lines, S, Last(lines[t])) = 2

SimpleCycle(lines, S) ==
    /\ TwoRegular(lines, S)
    /\ \A T \in SUBSET S : (T # {} /\ T # S) => ~TwoRegular(lines, T)

\* The coordinates met walking the cycle, the closing point included.
RECURSIVE Walk(_, _, _, _)
Walk(lines, rest, at, acc) ==
    IF rest = {} THEN acc
    ELSE LET t == CHOOSE u \in rest :
                     /\ (First(lines[u]) = at \/ Last(lines[u]) = at)
                     /\ \A w \in rest :
                          (First(lines[w]) = at \/ Last(lines[w]) = at) => u <= w
             l == IF First(lines[t]) = at THEN lines[t] ELSE Reverse(lines[t])
         IN  Walk(lines, rest \ {t}, Last(l), acc \o Tail(l))

\* The ring of a cycle: its vertices, the closing point dropped.
RingOf(lines, S) ==
    LET t0 == CHOOSE u \in S : \A w \in S : u <= w
        closed == Walk(lines, S \ {t0}, Last(lines[t0]), lines[t0])
    IN  SubSeq(closed, 1, Len(closed) - 1)

IsFace(lines, S) ==
    /\ SimpleCycle(lines, S)
    /\ Area2(RingOf(lines, S)) # 0
    /\ ~\E t \in (1..Len(lines)) \ S :
          Range(lines[t]) \subseteq Range(RingOf(lines, S))

\* The set of polygons polygonize yields; their order is the library's.
polygonize(lines) ==
    {RingOf(lines, S) : S \in {T \in SUBSET (1..Len(lines)) : IsFace(lines, T)}}

(***************************************************************************)
(* order_polygon (lines 72-80).                                            *)
(***************************************************************************)
\* Where atan2(dy, dx) falls: 0 for (-pi, 0), 1 for 0, 2 for (0, pi), 3 for pi.
\* atan2(0, 0) is 0.
AngleClass(d) ==
    IF d.y < 0 THEN 0
    ELSE IF d.y > 0 THEN 2
    ELSE IF d.x >= 0 THEN 1 ELSE 3

AngleLess(u, v) ==
    \/ AngleClass(u) < AngleClass(v)
    \/ /\ AngleClass(u) = AngleClass(v)
       /\ AngleClass(u) \in {0, 2}
       /\ u.x * v.y - u.y * v.x > 0

\* arr[np.argsort(angles)]: the points by ascending angle around the
\* centroid, equal angles in their order of arrival.  The offsets from the
\* centroid are scaled by the number of points, which keeps the angles.
order_polygon(points) ==
    LET n   == Len(points)
        sx  == SumOf(points, 1, TRUE)
        sy  == SumOf(points, 1, FALSE)
        d   == [k \in 1..n |-> Pt(n * points[k].x - sx, n * points[k].y - sy)]
        before(j, k) == \/ AngleLess(d[j], d[k])
                        \/ (~AngleLess(d[k], d[j]) /\ j < k)
        rank == [k \in 1..n |-> Cardinality({j \in 1..n : j # k /\ before(j, k)})]
    IN  [r \in 1..n |-> points[CHOOSE k \in 1..n : rank[k] = r - 1]]

\* Polygon(ordered) raises ValueError when the shell has too few
\* coordinates to close into a ring.
PolygonRaises(ordered) ==
    \/ Len(ordered) < 3
    \/ (Len(ordered) = 3 /\ ordered[1] = ordered[3])


(***************************************************************************)
(* Cells (lines 83-122).                                                   *)
(***************************************************************************)
\* group_map.get(group_id, f"unknown_group_{group_id}")
Placeholder(group_id) == Str("unknown_group_" \o ToString(group_id))
ResolveLabel(m, group_id) ==
    IF group_id \in DOMAIN m THEN m[group_id] ELSE Placeholder(group_id)

\* The loop over the cell's <wall> references, from reference k on.
RECURSIVE GatherWalls(_, _, _, _)
GatherWalls(refs, k, wl, lines) ==
    IF k > Len(refs) THEN [ok |-> TRUE, lines |-> lines, err |-> "none"]
    ELSE LET id == PyInt(refs[k])
         IN  IF ~id.ok THEN [ok |-> FALSE, lines |-> lines, err |-> id.err]
             ELSE GatherWalls(refs, k + 1, wl,
                              IF id.v \in DOMAIN wl THEN Append(lines, wl[id.v])
                              ELSE lines)

\* The orders in which a set of polygons can come out of polygonize.
Orderings(P) == {sq \in DistinctSeqs(P, Cardinality(P)) : Len(sq) = Cardinality(P)}

\* `cell_polygon is not None and not cell_polygon.is_empty`, for a polygon
\* that was built.
IsEmptyPolygon(poly) == Len(poly) = 0

FallbackTag == Str("fallback")

LogEntry(idx, gid, label, lines, polygons, via, type, polygon, emitted, raised) ==
    [cell |-> idx, group_id |-> gid, resolved |-> label, lines |-> lines,
     points |-> Flatten(lines), polygons |-> polygons, via |-> via,
     type |-> type, polygon |-> polygon, emitted |-> emitted, raised |-> raised]

(***************************************************************************)
(* The mesh documents get_root_section is called on.                       *)
(***************************************************************************)
\* Most <group> declarations / wall references of a cell / points of a wall
\* in a drawn document.
MaxGroups == 2
MaxRefs == 5
MaxPts == 3

PA == Pt(0, 0)
PE == Pt(1, 0)
PB == Pt(2, 0)
PC == Pt(2, 2)
PD == Pt(0, 2)

\* Five walls that meet only at end points: the square ABCD with the side
\* AB split at its midpoint E, the sides CD and DA as one three-point wall,
\* and the diagonal AC.
CatalogueWalls ==
    << <<PA, PE>>, <<PE, PB>>, <<PB, PC>>, <<PC, PD, PA>>, <<PA, PC>> >>
UnknownWallId == Len(CatalogueWalls) + 1
RawWallId == Len(CatalogueWalls) + 2

RawPoint(p) == [x |-> NumTok(p.x), y |-> NumTok(p.y)]
RawWall(idtok, pts) ==
    [id |-> idtok,
     points |-> [has |-> TRUE, pts |-> [k \in 1..Len(pts) |-> RawPoint(pts[k])]]]
CatalogueRaw == [w \in 1..Len(CatalogueWalls) |-> RawWall(NumTok(w), CatalogueWalls[w])]

Refs(ids) == [k \in 1..Len(ids) |-> NumTok(ids[k])]
Cell(idtok, grouptok, refs) == [id |-> idtok, group |-> grouptok, walls |-> refs]
Group(idtok, name) == [id |-> idtok, name |-> name]
Doc(ok, gs, ws, cs) == [parseable |-> ok, groups |-> gs, walls |-> ws, cells |-> cs]

\* The triangle C-D-A closed by the three-point wall and the diagonal.
TriangleCell == Cell(NumTok(2), NumTok(3), Refs(<<4, 5>>))
DefaultGroups == << Group(NumTok(4), Str("parenchyma")) >>

\* (1) One cell over any selection of walls, followed by the triangle cell.
GeometryDocs ==
    {Doc(TRUE, DefaultGroups, CatalogueRaw,
         << Cell(NumTok(1), NumTok(4), Refs(r)), TriangleCell >>) :
       r \in DistinctSeqs((1..Len(CatalogueWalls)) \cup {UnknownWallId}, MaxRefs)}

\* (2) Any group declarations, and a closed or an open cell of any group.
DeclIds == {3, 4, 9}
CellGroupIds == {3, 4, 7, 9}
DeclNames == {PyNone, Str("stele"), Str("fallback")}
GroupDecls ==
    UNION {[1..n -> {Group(NumTok(g), nm) : g \in DeclIds, nm \in DeclNames}] :
             n \in 0..MaxGroups}
GroupDocs ==
    {Doc(TRUE, gs, CatalogueRaw, << Cell(NumTok(1), NumTok(g), Refs(r)) >>) :
       gs \in GroupDecls, g \in CellGroupIds, r \in {<<4, 5>>, <<3, 5>>}}

\* (3) A present, missing or non-integer id at every place one is read;
\* the source itself parseable or not.
IdToks(n) == {NumTok(n), NoAttr, BadTok}
IdDocs ==
    {Doc(ok, << Group(tg, Str("stele")) >>,
         [w \in 1..Len(CatalogueWalls) |->
             IF w = 5 THEN RawWall(tw, CatalogueWalls[w]) ELSE CatalogueRaw[w]],
         << Cell(tc, tcg, << NumTok(4), tr >>), TriangleCell >>) :
       ok \in BOOLEAN, tg \in IdToks(9), tw \in IdToks(5), tc \in IdToks(1),
       tcg \in IdToks(9), tr \in IdToks(5)}
    \cup {Doc(TRUE, <<>>, <<>>, <<>>)}

\* (4) A wall whose points carry any mix of numeric, missing, empty and
\* non-numeric coordinates (or that has no <points> element), referenced
\* with the diagonal by one cell; the triangle cell follows.  The missing
\* attribute is drawn for x and the empty one for y: the code treats the two
\* alike.
CoordKindsX == {"num", "none", "bad"}
CoordKindsY == {"num", "empty", "bad"}
CoordTok(kind, n) == [k |-> kind, v |-> IF kind = "num" THEN n ELSE 0]
BasePts == <<PA, PB, PC, PD>>
RawPointLists ==
    UNION {{[k \in 1..n |-> [x |-> CoordTok(f[k][1], BasePts[k].x),
                             y |-> CoordTok(f[k][2], BasePts[k].y)]] :
              f \in [1..n -> CoordKindsX \X CoordKindsY]} : n \in 0..MaxPts}
WallPointDocs ==
    {Doc(TRUE, DefaultGroups,
         << [id |-> NumTok(RawWallId), points |-> pe] >> \o CatalogueRaw,
         << Cell(NumTok(1), NumTok(4), Refs(<<RawWallId, 5>>)), TriangleCell >>) :
       pe \in {[has |-> TRUE, pts |-> ps] : ps \in RawPointLists}
              \cup {[has |-> FALSE, pts |-> <<>>]}}

MeshDocs == GeometryDocs \cup GroupDocs \cup IdDocs \cup WallPointDocs

(***************************************************************************)
(* get_root_section, step by step.                                         *)
(***************************************************************************)
InitSection ==
    /\ doc \in MeshDocs
    /\ phase = "parse" /\ group_map = <<>> /\ wall_linestrings = <<>>
    /\ cell_idx = 0 /\ records = <<>> /\ cellLog = <<>> /\ exc = NoExc
    /\ SweepIdle

\* ET.parse inside try/except: an empty GeoDataFrame on any exception.
ParseXML ==
    /\ phase = "parse"
    /\ phase' = IF doc.parseable THEN "groups" ELSE "returned"
    /\ UNCHANGED <<doc, group_map, wall_linestrings, cell_idx, records, cellLog, exc>>
    /\ UNCHANGED sweepVars

ParseGroups ==
    /\ phase = "groups"
    /\ LET r == ParseGroupsFrom(doc.groups, 1, <<>>)
       IN  /\ group_map' = r.map
           /\ exc' = r.exc
           /\ phase' = IF r.ok THEN "walls" ELSE "raised"
    /\ UNCHANGED <<doc, wall_linestrings, cell_idx, records, cellLog>>
    /\ UNCHANGED sweepVars

ParseWalls ==
    /\ phase = "walls"
    /\ LET r == ParseWallsFrom(doc.walls, 1, <<>>)
       IN  /\ wall_linestrings' = r.map
           /\ exc' = r.exc
           /\ phase' = IF r.ok THEN "cells" ELSE "raised"
    /\ cell_idx' = 1
    /\ UNCHANGED <<doc, group_map, records, cellLog>>
    /\ UNCHANGED sweepVars

\* The cell left the loop body by an exception.
CellRaises(type, at, entry) ==
    /\ phase' = "raised"
    /\ exc' = [type |-> type, at |-> at]
    /\ cellLog' = cellLog \o entry
    /\ UNCHANGED <<records, cell_idx>>

\* The cell's loop body ran to its end.
CellDone(cell_id, entry) ==
    /\ phase' = "cells"
    /\ cell_idx' = cell_idx + 1
    /\ cellLog' = Append(cellLog, entry)
    /\ records' = IF entry.emitted
                  THEN Append(records, [id_cell |-> cell_id, type |-> entry.type,
                                        geometry |-> entry.polygon])
                  ELSE records
    /\ UNCHANGED exc

\* One pass of the loop over the <cell> elements.
ParseCell ==
    /\ phase = "cells"
    /\ cell_idx <= Len(doc.cells)
    /\ LET c   == doc.cells[cell_idx]
           id  == PyInt(c.id)
           g   == PyInt(c.group)
           cell_type == ResolveLabel(group_map, g.v)
           gw  == GatherWalls(c.walls, 1, wall_linestrings, <<>>)
           cell_lines == gw.lines
           rings == polygonize(cell_lines)
           ordered == order_polygon(Flatten(cell_lines))
       IN  IF ~id.ok THEN CellRaises(id.err, "cell_id", <<>>)
           ELSE IF ~g.ok THEN CellRaises(g.err, "cell_group", <<>>)
           ELSE IF ~gw.ok THEN CellRaises(gw.err, "wall_ref", <<>>)
           ELSE IF cell_lines = <<>>
           THEN CellDone(id.v, LogEntry(cell_idx, g.v, cell_type, cell_lines, <<>>,
                                        "none", cell_type, <<>>, FALSE, FALSE))
           ELSE IF rings # {}
           THEN \E polygons \in Orderings(rings) :
                  CellDone(id.v, LogEntry(cell_idx, g.v, cell_type, cell_lines,
                                          polygons, "polygonize", cell_type,
                                          polygons[1],
                                          ~IsEmptyPolygon(polygons[1]), FALSE))
           ELSE IF PolygonRaises(ordered)
           THEN CellRaises("ValueError", "fallback",
                           << LogEntry(cell_idx, g.v, cell_type, cell_lines, <<>>,
                                       "fallback", cell_type, <<>>, FALSE, TRUE) >>)
           ELSE CellDone(id.v, LogEntry(cell_idx, g.v, cell_type, cell_lines, <<>>,
                                        "fallback", FallbackTag, ordered,
                                        ~IsEmptyPolygon(ordered), FALSE))
    /\ UNCHANGED <<doc, group_map, wall_linestrings>>
    /\ UNCHANGED sweepVars

\* gpd.GeoDataFrame(records); return.
Return ==
    /\ phase = "cells"
    /\ cell_idx > Len(doc.cells)
    /\ phase' = "returned"
    /\ UNCHANGED <<doc, group_map, wall_linestrings, cell_idx, records, cellLog, exc>>
    /\ UNCHANGED sweepVars

NextSection ==
    \/ ParseXML \/ ParseGroups \/ ParseWalls \/ ParseCell \/ Return

SpecSection == InitSection /\ [][NextSection]_vars


(***************************************************************************)
(* Claims about get_root_section.                                          *)
(***************************************************************************)
LogEntries == {cellLog[k] : k \in DOMAIN cellLog}

\* The mesh declares group g under groups/cellgroups.
Declared(g) == \E k \in DOMAIN doc.groups : doc.groups[k].id = NumTok(g)

\* The names the mesh declares for group g.
DeclaredNames(g) ==
    {doc.groups[k].name : k \in {n \in DOMAIN doc.groups :
                                   /\ doc.groups[n].id = NumTok(g)
                                   /\ doc.groups[n].name.k = "str"}}

C5_FallbackVertexCount ==
    \A e \in LogEntries :
        (e.lines # <<>> /\ e.via # "polygonize") =>
            /\ e.emitted
            /\ e.type = FallbackTag
            /\ Len(e.polygon) = Cardinality(Range(e.points))

\* A polygon with no area: empty, fewer than three vertices, or flat.
Degenerate(poly) == Len(poly) < 3 \/ Area2(poly) = 0

\* C6: reconstructing a cell never raises; a cell with no contributing wall
\* or with a degenerate polygon is omitted; no entry of the section holds a
\* null or degenerate polygon.
C6_DegenerateCellsOmitted ==
    /\ exc.at # "fallback"
    /\ \A e \in LogEntries :
         /\ ~e.raised
         /\ (e.lines = <<>> \/ Degenerate(e.polygon)) => ~e.emitted
    /\ \A k \in DOMAIN records : ~Degenerate(records[k].geometry)

\* The points of a wall record whose two coordinates are numbers.
IsNumericPoint(p) == p.x.k = "num" /\ p.y.k = "num"
NumericPoints(w) ==
    LET ok == SelectSeq(w.points.pts, IsNumericPoint)
    IN  [k \in 1..Len(ok) |-> Pt(ok[k].x.v, ok[k].y.v)]

\* C7: a point with a coordinate that fails numeric parsing is dropped
\* alone; the wall is left out of the index exactly when fewer than two
\* valid points remain; get_root_section does not raise over it.
C7_BadPointDroppedAlone ==
    /\ exc.at # "wall_point"
    /\ (doc.parseable /\ phase \in {"cells", "returned"}) =>
         \A k \in DOMAIN doc.walls :
            LET w  == doc.walls[k]
                ps == NumericPoints(w)
            IN  /\ (w.id.v \in DOMAIN wall_linestrings) <=> (Len(ps) >= 2)
                /\ Len(ps) >= 2 => wall_linestrings[w.id.v] = ps

\* A group, wall or cell record lacks its id (or group) attribute or
\* carries one that is no integer.
HasBadIdAttr(d) ==
    \/ \E k \in DOMAIN d.groups : d.groups[k].id.k # "num"
    \/ \E k \in DOMAIN d.walls : d.walls[k].id.k # "num"
    \/ \E k \in DOMAIN d.cells : d.cells[k].id.k # "num" \/ d.cells[k].group.k # "num"

\* C8 as amended: an unparseable source yields an empty section and no
\* exception; a parseable document in which a group, wall or cell record
\* lacks or carries a non-integer id/group attribute never yields a section:
\* get_root_section raises TypeError or ValueError to its caller.
C8_EmptyOnlyWhenUnparseable ==
    /\ ~doc.parseable =>
         /\ phase \in {"parse", "returned"}
         /\ records = <<>>
    /\ (doc.parseable /\ HasBadIdAttr(doc)) =>
         /\ phase # "returned"
         /\ ~(phase = "cells" /\ cell_idx > Len(doc.cells))
         /\ phase = "raised" => exc.type \in {"TypeError", "ValueError"}

C8_Witness ==
    /\ doc.parseable /\ HasBadIdAttr(doc)
    /\ phase = "raised"
    /\ exc = [type |-> "TypeError", at |-> "cell_group"]

\* C8 as stated: every malformed document (unparseable, or with such an
\* attribute) yields an empty section and get_root_section never raises.
C8_MalformedYieldsEmpty ==
    (~doc.parseable \/ HasBadIdAttr(doc)) =>
        /\ phase # "raised"
        /\ phase = "returned" => records = <<>>

\* C9: for a group id other than 3 and 4 the resolved label is the declared
\* name when the group is declared with a name, else the placeholder
\* unknown_group_<id>; it is never null.
C9_NameOrPlaceholder ==
    \A e \in LogEntries :
        e.group_id \notin {3, 4} =>
            /\ e.resolved.k = "str"
            /\ IF DeclaredNames(e.group_id) # {}
               THEN e.resolved \in DeclaredNames(e.group_id)
               ELSE e.resolved = Str("unknown_group_" \o ToString(e.group_id))

\* C10: an entry made by exact closure carries the first ring produced and
\* its cell's resolved label; an entry is typed with the fallback tag if and
\* only if the centroid-ordering fallback built its polygon.
C10_FallbackTagReserved ==
    \A e \in LogEntries :
        e.emitted =>
            /\ e.via = "polygonize" =>
                 (e.polygon = e.polygons[1] /\ e.type = e.resolved)
            /\ (e.type = FallbackTag) <=> (e.via = "fallback")

=============================================================================
